---- MODULE Spec2Model ----
(***************************************************************************)
(* music-md: the remark-svguitar and remark-lilypond plugins.              *)
(*                                                                         *)
(* Three developments share this module:                                   *)
(*   SpecViewBox  the viewBox repair of remark-svguitar (fixSvgViewBox,    *)
(*                fixMultipleSvgViewBoxes) applied to bounded fragments;   *)
(*   SpecCompact  compactSvg of remark-lilypond applied to bounded         *)
(*                fragments;                                               *)
(*   Spec         the two transformers running over a document.            *)
(*                                                                         *)
(* Markup is modelled as a sequence of lexical tokens, each a record       *)
(* [k, v]; the regular expressions of the source are modelled as scans     *)
(* over those tokens.  Attribute values that the code parses are kept as   *)
(* sequences of one-character strings so that parseFloat and the number    *)
(* to string conversion of template literals are computed, not assumed.    *)
(***************************************************************************)
EXTENDS Integers, Sequences, FiniteSets, TLC

VARIABLES
  vbFn,       \* the repair function under application, "idle" when none
  vbInput,    \* the fragment the repair was first given
  vbPrev,     \* the argument of the latest application
  vbOutput,   \* the latest result (the input before any application)
  vbPasses,   \* number of applications so far
  csInput,    \* the markup compactSvg is given
  csOutput,   \* the markup compactSvg returned
  csDone,     \* compactSvg has returned
  run,             \* per run slot: the state of a transformer run
  runCount,        \* transformer runs started so far
  browserInstance, \* the module variable: 0 for null, else a browser
  browserState,    \* per launched browser: "open" or "closed"
  closerPc,        \* the closeBrowser() calls of the host: "idle" (none
                   \* since the latest transformer call), "closing" (one
                   \* awaits close()), "resolved" (the latest returned)
  browserLauncher, \* per launched browser: keepAlive of the run it is from
  ncInput,    \* the chord array normaliseChordData is given
  ncOutput,   \* the chord array normaliseChordData returned
  ncDone      \* normaliseChordData has returned

vbVars == <<vbFn, vbInput, vbPrev, vbOutput, vbPasses>>
csVars == <<csInput, csOutput, csDone>>
trVars ==
  <<run, runCount, browserInstance, browserState, closerPc, browserLauncher>>
ncVars == <<ncInput, ncOutput, ncDone>>

(***************************************************************************)
(* JavaScript numbers and their text                                       *)
(***************************************************************************)

\* A JavaScript value of the parsing code: a number (the model keeps the
\* integers), NaN (parseFloat of a non-number, arithmetic on undefined) or
\* undefined (a missing array element).
Num(n) == [t |-> "num", n |-> n]
NaN == [t |-> "NaN", n |-> 0]
Undefined == [t |-> "undefined", n |-> 0]

IsNum(v) == v.t = "num"

\* v > 0 as JavaScript evaluates it: false for NaN and for undefined.
GreaterThanZero(v) == IsNum(v) /\ v.n > 0

Digit == {"0", "1", "2", "3", "4", "5", "6", "7", "8", "9"}

DigitVal(c) ==
  CASE c = "0" -> 0 [] c = "1" -> 1 [] c = "2" -> 2 [] c = "3" -> 3
    [] c = "4" -> 4 [] c = "5" -> 5 [] c = "6" -> 6 [] c = "7" -> 7
    [] c = "8" -> 8 [] c = "9" -> 9

DigitChar(n) ==
  CASE n = 0 -> "0" [] n = 1 -> "1" [] n = 2 -> "2" [] n = 3 -> "3"
    [] n = 4 -> "4" [] n = 5 -> "5" [] n = 6 -> "6" [] n = 7 -> "7"
    [] n = 8 -> "8" [] n = 9 -> "9"

RECURSIVE LeadingDigits(_)
LeadingDigits(s) ==
  IF s = <<>> \/ Head(s) \notin Digit THEN <<>>
  ELSE <<Head(s)>> \o LeadingDigits(Tail(s))

RECURSIVE DigitsValue(_)
DigitsValue(ds) ==
  IF ds = <<>> THEN 0
  ELSE DigitsValue(SubSeq(ds, 1, Len(ds) - 1)) * 10 + DigitVal(ds[Len(ds)])

\* parseFloat on a string of the model's alphabet (digits, signs, letters):
\* an optional sign, then the longest run of digits; whatever follows is
\* ignored; no digit at all gives NaN.
parseFloat(s) ==
  LET signed == s # <<>> /\ Head(s) \in {"-", "+"}
      body   == IF signed THEN Tail(s) ELSE s
      ds     == LeadingDigits(body)
  IN  IF ds = <<>> THEN NaN
      ELSE IF signed /\ Head(s) = "-" THEN Num(0 - DigitsValue(ds))
      ELSE Num(DigitsValue(ds))

RECURSIVE NatToString(_)
NatToString(n) ==
  IF n < 10 THEN <<DigitChar(n)>>
  ELSE NatToString(n \div 10) \o <<DigitChar(n % 10)>>

\* `${v}` in a template literal.
NumToString(v) ==
  IF v.t = "NaN" THEN <<"N", "a", "N">>
  ELSE IF v.t = "undefined"
    THEN <<"u", "n", "d", "e", "f", "i", "n", "e", "d">>
  ELSE IF v.n < 0 THEN <<"-">> \o NatToString(0 - v.n)
  ELSE NatToString(v.n)

\* Mutation of TimesRatio: the height is synthesized with ratio 1.0.
TimesRatioUnit(w) == IF IsNum(w) THEN Num(w.n) ELSE NaN

\* width * 1.2.  The widths of the model are multiples of 5, for which the
\* IEEE-754 product is exactly the integer 6w/5 (300 * 1.2 = 360).
TimesRatio(w) == IF IsNum(w) THEN Num((w.n * 6) \div 5) ELSE NaN

\* parts[i] after .map(parseFloat) and array destructuring.
Component(parts, i) ==
  IF i <= Len(parts) THEN parseFloat(parts[i]) ELSE Undefined

(***************************************************************************)
(* Tokens of svguitar markup                                               *)
(*   svg  the text "<svg"                                                  *)
(*   gt   the character ">"                                                *)
(*   txt  any other text without ">" and without a viewBox attribute       *)
(*   vb   viewBox="..." ; v is the value split at single spaces            *)
(***************************************************************************)
Tok(k, v) == [k |-> k, v |-> v]
SvgOpen == Tok("svg", <<>>)
Gt == Tok("gt", <<>>)
Txt == Tok("txt", <<>>)
ViewBoxAttr(parts) == Tok("vb", parts)

\* /viewBox="([^"]+)"/ matches the token: the value has at least one
\* character ("".split(" ") is the one-element array of the empty string).
MatchesViewBox(t) == t.k = "vb" /\ ~(Len(t.v) = 1 /\ t.v[1] = <<>>)

\* Index of the first match of /viewBox="([^"]+)"/ in s, 0 when none.
FirstViewBox(s) ==
  IF \E i \in 1..Len(s) : MatchesViewBox(s[i])
  THEN CHOOSE i \in 1..Len(s) :
         /\ MatchesViewBox(s[i])
         /\ \A j \in 1..(i - 1) : ~MatchesViewBox(s[j])
  ELSE 0

\* Mutation of FixedViewBox: the parsed height is written back as it was.
FixedViewBoxSameHeight(parts) ==
  ViewBoxAttr(<<NumToString(Component(parts, 1)),
                NumToString(Component(parts, 2)),
                NumToString(Component(parts, 3)),
                NumToString(Component(parts, 4))>>)

\* The text written for a degenerate viewBox: `${x} ${y} ${width}
\* ${calculatedHeight}` with calculatedHeight = width * 1.2.
FixedViewBox(parts) ==
  LET x      == Component(parts, 1)
      y      == Component(parts, 2)
      width  == Component(parts, 3)
      calculatedHeight == TimesRatio(width)
  IN  ViewBoxAttr(<<NumToString(x), NumToString(y), NumToString(width),
                    NumToString(calculatedHeight)>>)

\* Mutation of fixSvgViewBox: the test `height > 0` is missing.
fixSvgViewBoxNoHeightTest(svgContent) ==
  LET i == FirstViewBox(svgContent)
  IN  IF i = 0 THEN svgContent
      ELSE [svgContent EXCEPT ![i] = FixedViewBox(svgContent[i].v)]

\* fixSvgViewBox(svgContent)
fixSvgViewBox(svgContent) ==
  LET i == FirstViewBox(svgContent)
  IN  IF i = 0 THEN svgContent
      ELSE LET parts  == svgContent[i].v
               height == Component(parts, 4)
           IN  IF GreaterThanZero(height) THEN svgContent
               ELSE [svgContent EXCEPT ![i] = FixedViewBox(parts)]

\* The replacer callback of fixMultipleSvgViewBoxes, applied to the text of
\* one match of /<svg[^>]*>/.
svgTagReplacer(match) ==
  LET i == FirstViewBox(match)
  IN  IF i = 0 THEN match
      ELSE LET parts  == match[i].v
               height == Component(parts, 4)
           IN  IF GreaterThanZero(height) THEN match
               ELSE [match EXCEPT ![i] = FixedViewBox(parts)]

\* End of the match of /<svg[^>]*>/ that starts at token i: the first ">"
\* after it, 0 when the text has none.
SvgTagEnd(s, i) ==
  IF \E j \in (i + 1)..Len(s) : s[j].k = "gt"
  THEN CHOOSE j \in (i + 1)..Len(s) :
         /\ s[j].k = "gt"
         /\ \A m \in (i + 1)..(j - 1) : s[m].k # "gt"
  ELSE 0

\* Mutation of ReplaceSvgTags: the g flag is missing, only the first match
\* is replaced.
ReplaceSvgTagsFirstOnly(s, i) ==
  IF \E a \in i..Len(s) : s[a].k = "svg" /\ SvgTagEnd(s, a) # 0
  THEN LET a == CHOOSE b \in i..Len(s) :
                  /\ s[b].k = "svg" /\ SvgTagEnd(s, b) # 0
                  /\ \A c \in i..(b - 1) :
                       ~(s[c].k = "svg" /\ SvgTagEnd(s, c) # 0)
       IN  SubSeq(s, i, a - 1)
             \o svgTagReplacer(SubSeq(s, a, SvgTagEnd(s, a)))
             \o SubSeq(s, SvgTagEnd(s, a) + 1, Len(s))
  ELSE SubSeq(s, i, Len(s))

\* htmlContent.replace(/<svg[^>]*>/g, replacer) from token i on: matches
\* are found left to right and do not overlap.
RECURSIVE ReplaceSvgTags(_, _)
ReplaceSvgTags(s, i) ==
  IF i > Len(s) THEN <<>>
  ELSE IF s[i].k = "svg" /\ SvgTagEnd(s, i) # 0
    THEN svgTagReplacer(SubSeq(s, i, SvgTagEnd(s, i)))
           \o ReplaceSvgTags(s, SvgTagEnd(s, i) + 1)
  ELSE <<s[i]>> \o ReplaceSvgTags(s, i + 1)

\* fixMultipleSvgViewBoxes(htmlContent)
fixMultipleSvgViewBoxes(htmlContent) == ReplaceSvgTags(htmlContent, 1)

(***************************************************************************)
(* compactSvg of remark-lilypond                                           *)
(*                                                                         *)
(* LilyPond markup is a sequence of elements, one record per opening tag,  *)
(* closing tag or run of character data:                                   *)
(*   k    "svg", "a", "/a", "text", "/text", "g", "/g", "line", "rect",    *)
(*        "path" or "chars"                                                *)
(*   m    the source text of the element contains "Music engraving" or     *)
(*        "lilypond" in any letter case; for an "a" tag, its href is a     *)
(*        lilypond.org address                                             *)
(*   tr   the argument of transform="translate(...)" split at commas,      *)
(*        <<>> when the tag has no such attribute                          *)
(*   a    the attribute values the code reads: viewBox, width and height   *)
(*        of an svg tag, x2 of a line, x and width of a rect               *)
(*   id   the character data of a "chars" element                          *)
(***************************************************************************)
El(k) == [k |-> k, m |-> FALSE, tr |-> <<>>, a |-> <<>>, id |-> ""]

\* An attribute of a tag: present or not, and its value.
Attr(v) == [on |-> TRUE, v |-> v]
NoAttr == [on |-> FALSE, v |-> <<>>]

\* <svg viewBox=... width=... height=...>
SvgTag(viewBox, width, height) ==
  [El("svg") EXCEPT !.a = <<viewBox, width, height>>]

\* Index of the first element after i of kind k, 0 when none.
FirstAfter(s, i, k) ==
  IF \E j \in (i + 1)..Len(s) : s[j].k = k
  THEN CHOOSE j \in (i + 1)..Len(s) :
         /\ s[j].k = k
         /\ \A n \in (i + 1)..(j - 1) : s[n].k # k
  ELSE 0

\* Index of the first element after i whose text contains a marker.
FirstMarkerAfter(s, i) ==
  IF \E j \in (i + 1)..Len(s) : s[j].m
  THEN CHOOSE j \in (i + 1)..Len(s) :
         s[j].m /\ \A n \in (i + 1)..(j - 1) : ~s[n].m
  ELSE 0

\* replace(/<a[^>]*lilypond\.org[^>]*>[\s\S]*?<\/a>/gi, "") from element i.
RECURSIVE StripLinks(_, _)
StripLinks(s, i) ==
  IF i > Len(s) THEN <<>>
  ELSE IF s[i].k = "a" /\ s[i].m /\ FirstAfter(s, i, "/a") # 0
    THEN StripLinks(s, FirstAfter(s, i, "/a") + 1)
  ELSE <<s[i]>> \o StripLinks(s, i + 1)

\* End of the match of
\* /<text[^>]*>[\s\S]*?(?:Music engraving|LilyPond)[\s\S]*?<\/text>/ that
\* starts at the text tag i: the first </text> after the first marker after
\* the opening tag; 0 when there is no match at i.
TextMatchEnd(s, i) ==
  IF s[i].k = "text" /\ FirstMarkerAfter(s, i) # 0
  THEN FirstAfter(s, FirstMarkerAfter(s, i), "/text")
  ELSE 0

\* replace(/<text[^>]*>[\s\S]*?(?:Music engraving|LilyPond)[\s\S]*?
\* <\/text>/gi, "") from element i.
RECURSIVE StripTexts(_, _)
StripTexts(s, i) ==
  IF i > Len(s) THEN <<>>
  ELSE IF TextMatchEnd(s, i) # 0
    THEN StripTexts(s, TextMatchEnd(s, i) + 1)
  ELSE <<s[i]>> \o StripTexts(s, i + 1)

\* End of the match of
\* /<g[^>]*>\s*<(?:a|text)[^>]*(?:lilypond|Music engraving)[\s\S]*?<\/g>/
\* that starts at the g tag i, 0 when there is no match at i.
GroupMatchEnd(s, i) ==
  IF /\ s[i].k = "g"
     /\ i + 1 <= Len(s)
     /\ s[i + 1].k \in {"a", "text"}
     /\ s[i + 1].m
  THEN FirstAfter(s, i + 1, "/g")
  ELSE 0

\* replace(/<g[^>]*>\s*<(?:a|text)[^>]*(?:lilypond|Music engraving)
\* [\s\S]*?<\/g>/gi, "") from element i.
RECURSIVE StripGroups(_, _)
StripGroups(s, i) ==
  IF i > Len(s) THEN <<>>
  ELSE IF GroupMatchEnd(s, i) # 0
    THEN StripGroups(s, GroupMatchEnd(s, i) + 1)
  ELSE <<s[i]>> \o StripGroups(s, i + 1)

\* The three attribution removals that open compactSvg.
StripAttribution(svgContent) ==
  StripGroups(StripTexts(StripLinks(svgContent, 1), 1), 1)

\* Infinity and -Infinity, the initial content bounds.
PosInfinity == [t |-> "inf", n |-> 0]
NegInfinity == [t |-> "-inf", n |-> 0]

\* Math.min(a, b) and Math.max(a, b): NaN when an argument is NaN.
MathMin(a, b) ==
  IF a.t = "NaN" \/ b.t = "NaN" THEN NaN
  ELSE IF a.t = "-inf" \/ b.t = "-inf" THEN NegInfinity
  ELSE IF a.t = "inf" THEN b
  ELSE IF b.t = "inf" THEN a
  ELSE IF a.n <= b.n THEN a ELSE b

MathMax(a, b) ==
  IF a.t = "NaN" \/ b.t = "NaN" THEN NaN
  ELSE IF a.t = "inf" \/ b.t = "inf" THEN PosInfinity
  ELSE IF a.t = "-inf" THEN b
  ELSE IF b.t = "-inf" THEN a
  ELSE IF a.n >= b.n THEN a ELSE b

\* a + b and a - b on the values the crop computes with: the result is a
\* number when both operands are, NaN otherwise.
JsAdd(a, b) == IF IsNum(a) /\ IsNum(b) THEN Num(a.n + b.n) ELSE NaN
JsSub(a, b) == IF IsNum(a) /\ IsNum(b) THEN Num(a.n - b.n) ELSE NaN

\* parseFloat(v) || 0
OrZero(v) == IF IsNum(v) THEN v ELSE Num(0)

\* v.toFixed(2) of an integer.
ToFixed2(v) ==
  IF IsNum(v) THEN NumToString(v) \o <<".", "0", "0">> ELSE NumToString(v)

\* match[1].split(",").map((s) => parseFloat(s.trim()))
Coords(tr) == [c \in 1..Len(tr) |-> parseFloat(tr[c])]

\* viewBox value split at /\s+/.  The value is kept as its pieces between
\* single spaces; an empty piece stands for one more space.  Runs of spaces
\* inside the value separate once, spaces at either end give an empty first
\* or last element.
SplitWhitespace(parts) ==
  LET lead  == IF parts[1] = <<>> THEN << <<>> >> ELSE <<>>
      trail == IF Len(parts) > 1 /\ parts[Len(parts)] = <<>>
               THEN << <<>> >> ELSE <<>>
  IN  lead \o SelectSeq(parts, LAMBDA c : c # <<>>) \o trail

\* The padding added around the content.
padding == 5

\* The width assumed for a path of a translated group.
pathWidth == 2

InitialBounds ==
  [minX |-> PosInfinity, maxX |-> NegInfinity,
   minY |-> PosInfinity, maxY |-> NegInfinity]

\* The loop over the matches of /transform="translate\(([^)]+)\)"/g from
\* element i on.
RECURSIVE ScanTransforms(_, _, _)
ScanTransforms(s, i, b) ==
  IF i > Len(s) THEN b
  ELSE IF s[i].tr # <<>> /\ Len(Coords(s[i].tr)) >= 2
    THEN LET coords == Coords(s[i].tr)
         IN  ScanTransforms(s, i + 1,
               [minX |-> MathMin(b.minX, coords[1]),
                maxX |-> MathMax(b.maxX, coords[1]),
                minY |-> MathMin(b.minY, coords[2]),
                maxY |-> MathMax(b.maxY, coords[2])])
  ELSE ScanTransforms(s, i + 1, b)

\* Mutation of ScanLines: the line endpoints are not looked at.
ScanLinesSkipped(s, i, b) == b

\* The loop over the matches of /<line[^>]*x2="([^"]*)"[^>]*>/g.
RECURSIVE ScanLines(_, _, _)
ScanLines(s, i, b) ==
  IF i > Len(s) THEN b
  ELSE IF s[i].k = "line" /\ s[i].a # <<>> /\ IsNum(parseFloat(s[i].a[1]))
    THEN ScanLines(s, i + 1,
           [b EXCEPT !.maxX = MathMax(b.maxX, parseFloat(s[i].a[1]))])
  ELSE ScanLines(s, i + 1, b)

\* The loop over the matches of
\* /<rect[^>]*x="([^"]*)"[^>]*width="([^"]*)"[^>]*>/g.
RECURSIVE ScanRects(_, _, _)
ScanRects(s, i, b) ==
  IF i > Len(s) THEN b
  ELSE IF s[i].k = "rect" /\ s[i].a # <<>>
    THEN ScanRects(s, i + 1,
           [b EXCEPT !.maxX =
              MathMax(b.maxX, JsAdd(OrZero(parseFloat(s[i].a[1])),
                                    OrZero(parseFloat(s[i].a[2]))))])
  ELSE ScanRects(s, i + 1, b)

\* The loop over the matches of
\* /<g transform="translate\(([^)]+)\)"[^>]*>[\s\S]*?<path[^>]*>/g: a match
\* runs from a translated g tag to the first path after it, and the search
\* resumes after that path.
RECURSIVE ScanPathGroups(_, _, _)
ScanPathGroups(s, i, b) ==
  IF i > Len(s) THEN b
  ELSE IF s[i].k = "g" /\ s[i].tr # <<>> /\ FirstAfter(s, i, "path") # 0
    THEN LET coords == Coords(s[i].tr)
             next   == FirstAfter(s, i, "path") + 1
         IN  IF Len(coords) >= 2
             THEN ScanPathGroups(s, next,
                    [b EXCEPT !.maxX =
                       MathMax(b.maxX, JsAdd(coords[1], Num(pathWidth)))])
             ELSE ScanPathGroups(s, next, b)
  ELSE ScanPathGroups(s, i + 1, b)

\* The content bounds after the four scans.
ContentBounds(s) ==
  ScanPathGroups(s, 1,
    ScanRects(s, 1, ScanLines(s, 1, ScanTransforms(s, 1, InitialBounds))))

\* minX < Infinity && minY < Infinity && maxX > -Infinity
HasEstimate(b) ==
  /\ b.minX.t \in {"num", "-inf"}
  /\ b.minY.t \in {"num", "-inf"}
  /\ b.maxX.t \in {"num", "inf"}

\* Index of the first svg tag of s that carries attribute n (1 viewBox,
\* 2 width, 3 height), 0 when none: the tag /<svg[^>]*attr="/ finds.
FirstSvgWith(s, n) ==
  IF \E i \in 1..Len(s) : s[i].k = "svg" /\ s[i].a[n].on
  THEN CHOOSE i \in 1..Len(s) :
         /\ s[i].k = "svg" /\ s[i].a[n].on
         /\ \A j \in 1..(i - 1) : ~(s[j].k = "svg" /\ s[j].a[n].on)
  ELSE 0

\* s.replace(/(<svg[^>]*)attr="[^"]*"/, ...): attribute n of the first svg
\* tag that carries it is set to v.
ReplaceSvgAttr(s, n, v) ==
  LET i == FirstSvgWith(s, n)
  IN  IF i = 0 THEN s ELSE [s EXCEPT ![i].a[n] = Attr(v)]

\* The rewrite of the svg tag from the content bounds b.
RewriteSvg(s, b) ==
  LET contentX      == MathMax(Num(0), JsSub(b.minX, Num(padding)))
      contentY      == MathMax(Num(0), JsSub(b.minY, Num(padding)))
      contentWidth  == JsAdd(JsSub(b.maxX, b.minX), Num(2 * padding))
      contentHeight == JsAdd(JsSub(b.maxY, b.minY), Num(2 * padding))
      newViewBox    == <<NumToString(contentX), NumToString(contentY),
                         NumToString(contentWidth),
                         NumToString(contentHeight)>>
      s1 == ReplaceSvgAttr(s, 1, newViewBox)
      s2 == ReplaceSvgAttr(s1, 2, <<"1", "0", "0", "%">>)
  IN  ReplaceSvgAttr(s2, 3, ToFixed2(contentHeight))

\* Mutation of CropToContent: without an estimate the height of the viewBox
\* is synthesized from its width, as fixSvgViewBox does.
CropToContentFallback(s) ==
  LET i == FirstSvgWith(s, 1)
  IN  IF i = 0 THEN s
      ELSE IF Len(SplitWhitespace(s[i].a[1].v)) # 4 THEN s
      ELSE IF HasEstimate(ContentBounds(s)) THEN RewriteSvg(s, ContentBounds(s))
      ELSE [s EXCEPT ![i].a[1] =
              Attr(FixedViewBox(SplitWhitespace(s[i].a[1].v)).v)]

\* The cropping half of compactSvg, on the stripped content.
CropToContent(s) ==
  LET i == FirstSvgWith(s, 1)
  IN  IF i = 0 THEN s
      ELSE IF Len(SplitWhitespace(s[i].a[1].v)) # 4 THEN s
      ELSE IF HasEstimate(ContentBounds(s)) THEN RewriteSvg(s, ContentBounds(s))
      ELSE s

\* compactSvg(svgContent)
compactSvg(svgContent) == CropToContent(StripAttribution(svgContent))

(***************************************************************************)
(* The transformers of remark-lilypond and remark-svguitar                 *)
(*                                                                         *)
(* A document tree is the sequence of its nodes in visiting order; a node  *)
(* is [type, lang, value] and a value is a triple of strings.  A run is a  *)
(* call of a transformer; it occupies a run slot and is a record:          *)
(*   pc          "idle", "launching", "rendering", "closing" or "done":    *)
(*               the await the run is suspended at                         *)
(*   plugin      "lilypond" or "svguitar"                                  *)
(*   errorInline, skipOnMissing, keepAlive, compact   the options          *)
(*   tree        the document                                              *)
(*   orig        the document as it was given (history)                    *)
(*   codeBlocks  the indices of the collected blocks                       *)
(*   blockIndex  position in codeBlocks of the block in progress           *)
(*   result      per collected block: "none", "svg", "renderFailed",       *)
(*               "notFound" or "parseFailed" (history)                     *)
(*   submitted   the blocks handed to the external renderer, in order      *)
(*               (history)                                                 *)
(*   pageOk      the browser was usable when newPage() was called          *)
(***************************************************************************)

\* Run slots, and the number of runs started in a behaviour.
MaxSlots == 2
MaxRuns == 2

Slots == 1..MaxSlots

Node(type, lang, value) == [type |-> type, lang |-> lang, value |-> value]
Code(lang, src) == Node("code", lang, <<"src", src, "">>)
Paragraph == Node("paragraph", "", <<"text", "", "">>)
Html(value) == Node("html", "", value)

\* visit(tree, "code", ...) collecting the code blocks of every language.
CollectCodeBlocksAnyLang(tree, lang) ==
  SelectSeq([i \in 1..Len(tree) |-> i], LAMBDA i : tree[i].type = "code")

\* visit(tree, "code", ...) collecting the blocks of one language.
CollectCodeBlocks(tree, lang) ==
  SelectSeq([i \in 1..Len(tree) |-> i],
            LAMBDA i : tree[i].type = "code" /\ tree[i].lang = lang)

\* parent.children[index] = node
ReplaceNode(tree, index, node) == [tree EXCEPT ![index] = node]

\* The html node of a rendered lilypond block; compactSvg is applied to the
\* renderer's output when compact is set.
LilypondSvgNode(node, compact) ==
  Html(<<"svg", node.value[2], IF compact THEN "compact" ELSE "full">>)

\* The html node of a lilypond error when every error is reported as a
\* compilation error.
LilypondErrorNodeCompileOnly(outcome) ==
  Html(<<"lilypond-error", "LilyPond Compilation Error", "">>)

\* The html node of a lilypond error: "LilyPond Not Found" when
\* isLilyPondNotFound(error), the escaped compilation error otherwise.
LilypondErrorNode(outcome) ==
  Html(<<"lilypond-error",
         IF outcome = "notFound" THEN "LilyPond Not Found"
         ELSE "LilyPond Compilation Error", "">>)

\* createErrorNode(errorMessage)
createErrorNode(errorMessage) == Html(<<"svguitar-error", errorMessage, "">>)

\* The html node of a rendered svguitar block.
SvguitarSvgNode(node) == Html(<<"svg", node.value[2], "">>)

\* The sources of svguitar blocks in the model: "chord" (one chord object),
\* "chords" (an array of two chords), "nofingers" (an object without
\* fingers), "chordsNoFingers" (an array of a chord and of an object
\* without fingers); every other source is not JSON.
IsJson(src) == src \in {"chord", "chords", "nofingers", "chordsNoFingers"}

\* Array.isArray(parsedData) ? parsedData : [parsedData], each chord by
\* whether it has fingers.
ChordsOf(src) ==
  CASE src = "chord" -> <<"fingers">>
    [] src = "chords" -> <<"fingers", "fingers">>
    [] src = "nofingers" -> <<"nofingers">>
    [] src = "chordsNoFingers" -> <<"fingers", "nofingers">>
    [] OTHER -> <<>>

\* What JSON.parse(node.value.trim()), normaliseChordData and
\* adaptConfigToChord make of a block: "chords" when they return, the error
\* thrown otherwise.  JSON.parse throws on a source that is not JSON, and
\* adaptConfigToChord throws a TypeError on chord.fingers.map for the first
\* chord without fingers, whatever the other chords of the array are.
PrepareChords(node) ==
  IF ~IsJson(node.value[2]) THEN "Invalid JSON in SVGuitar block"
  ELSE IF \E c \in 1..Len(ChordsOf(node.value[2])) :
            ChordsOf(node.value[2])[c] = "nofingers"
  THEN "TypeError"
  ELSE "chords"

\* The test of the catch clause without its skipOnMissing operand.
SkipsOnMissingAlways(rr, outcome) == outcome = "notFound"

\* The test of the catch clause when errorInline is consulted first.
SkipsOnMissingUnlessInline(rr, outcome) ==
  rr.skipOnMissing /\ ~rr.errorInline /\ outcome = "notFound"

\* skipOnMissing && isLilyPondNotFound(error)
SkipsOnMissing(rr, outcome) == rr.skipOnMissing /\ outcome = "notFound"

\* The try statement that encloses a site of a transformer; "none" when an
\* exception thrown there leaves the transformer, whose promise rejects.
\* Variant in which only the launch is enclosed.
EnclosingTryLaunchOnly(plugin, site) ==
  IF site = "launch" /\ plugin = "svguitar" THEN "launchTry" ELSE "none"

\* The try statement that encloses a site of a transformer; "none" when an
\* exception thrown there leaves the transformer, whose promise rejects.
\* The sites are "collect", "launch", "parse", "render" and "close".
EnclosingTry(plugin, site) ==
  IF site = "launch" /\ plugin = "svguitar" THEN "launchTry"
  ELSE IF site \in {"parse", "render"} THEN "blockTry"
  ELSE "none"

\* An exception at the site: the run as its catch clause leaves it, or the
\* rejected run.
Throw(rr, site, caught) ==
  IF EnclosingTry(rr.plugin, site) = "none"
  THEN [rr EXCEPT !.pc = "rejected"]
  ELSE caught

\* The run is not suspended at an await.
AtRest(rr) == rr.pc \in {"idle", "done", "rejected"}

\* if (codeBlocks.length === 0) return;
\* Variant without the test.
EarlyReturnNever(rr) == FALSE

\* if (codeBlocks.length === 0) return;
EarlyReturn(rr) == rr.codeBlocks = <<>>

IdleRun ==
  [pc |-> "idle", plugin |-> "none", errorInline |-> FALSE,
   skipOnMissing |-> FALSE, keepAlive |-> FALSE, compact |-> FALSE,
   tree |-> <<>>, orig |-> <<>>, codeBlocks |-> <<>>, blockIndex |-> 0,
   result |-> <<>>, submitted |-> <<>>, pageOk |-> FALSE,
   binaryMissing |-> FALSE, launch |-> "none", browser |-> 0]

\* The browser b is launched and not closed.
IsOpen(state, b) == b # 0 /\ state[b] = "open"

\* The current block of the run.
CurrentIndex(rr) == rr.codeBlocks[rr.blockIndex]

\* The catch clause of a svguitar block for the error message msg, and the
\* step to the next block.
SvguitarBlockFailed(rr, kind, msg) ==
  Throw(rr, IF kind = "parseFailed" THEN "parse" ELSE "render",
        [rr EXCEPT
           !.tree = IF rr.errorInline
                    THEN ReplaceNode(rr.tree, CurrentIndex(rr),
                                     createErrorNode(msg))
                    ELSE rr.tree,
           !.result[rr.blockIndex] = kind,
           !.blockIndex = rr.blockIndex + 1])

\* closeBrowser() that leaves the browser as it is.
CloseCalledNothing(state, inst) == state

\* closeBrowser() up to its await: the browser held by browserInstance, if
\* any, starts closing.
CloseCalled(state, inst) ==
  IF inst # 0 THEN [state EXCEPT ![inst] = "closed"] ELSE state

\* if (!keepAlive) await closeBrowser(), when every run closes at its end.
ClosesAtEndAlways(rr, inst) == inst # 0

\* if (!keepAlive) await closeBrowser(): the run awaits the close of the
\* browser that browserInstance holds, when it holds one.
ClosesAtEnd(rr, inst) == ~rr.keepAlive /\ inst # 0

\* The svguitar run rr from the top of its for loop to its next await or
\* to its return: blocks that fail to parse are handled on the way, a block
\* that parses is handed to renderChordsWithPuppeteer, and after the last
\* block the browser is closed unless keepAlive is set.  The result is the
\* run and the state of the browsers.
RECURSIVE SvguitarLoop(_, _, _)
SvguitarLoop(rr, inst, state) ==
  IF rr.pc = "rejected" THEN [run |-> rr, state |-> state]
  ELSE IF rr.blockIndex > Len(rr.codeBlocks)
  THEN IF ClosesAtEnd(rr, inst)
       THEN [run |-> [rr EXCEPT !.pc = "closing"],
             state |-> CloseCalled(state, inst)]
       ELSE [run |-> [rr EXCEPT !.pc = "done"], state |-> state]
  ELSE LET prepared == PrepareChords(rr.tree[CurrentIndex(rr)])
       IN  IF prepared # "chords"
           THEN SvguitarLoop(SvguitarBlockFailed(rr, "parseFailed", prepared),
                             inst, state)
           ELSE [run |-> [rr EXCEPT
                            !.pc = "rendering",
                            !.submitted = Append(@, rr.blockIndex),
                            !.pageOk = IsOpen(state, inst),
                            !.browser = inst],
                 state |-> state]

\* The lilypond run rr from the top of its for loop to its next await or to
\* its return.
LilypondLoop(rr) ==
  IF rr.pc = "rejected" THEN rr
  ELSE IF rr.blockIndex > Len(rr.codeBlocks)
  THEN [rr EXCEPT !.pc = "done"]
  ELSE [rr EXCEPT !.pc = "rendering",
                  !.submitted = Append(@, rr.blockIndex)]

\* The documents given to the transformers.
SampleTrees ==
  { <<Code("lilypond", "A"), Paragraph, Code("lilypond", "B")>>,
    <<Code("lilypond", "A"), Code("lilypond", "B"), Code("lilypond", "C")>>,
    <<Code("svguitar", "chord"), Code("js", "x"), Code("svguitar", "chords")>>,
    <<Code("svguitar", "notjson"), Code("svguitar", "chord")>>,
    <<Code("svguitar", "chord"), Code("svguitar", "nofingers"),
      Code("lilypond", "A")>>,
    <<Code("svguitar", "chord"), Code("svguitar", "chordsNoFingers"),
      Code("svguitar", "chords")>>,
    <<Paragraph, Code("js", "x"), Code("Svguitar", "chord")>> }

\* The run that transformer(tree) of the given plugin and options is when
\* its code blocks are collected.
\* binaryMissing tells whether the lilypond executable of binaryPath exists
\* during the run.
NewRun(plugin, tree, errorInline, skipOnMissing, keepAlive, compact, binaryMissing) ==
  LET blocks == CollectCodeBlocks(tree, plugin)
  IN  [pc |-> "idle", plugin |-> plugin, errorInline |-> errorInline,
       skipOnMissing |-> skipOnMissing, keepAlive |-> keepAlive,
       compact |-> compact, tree |-> tree, orig |-> tree,
       codeBlocks |-> blocks, blockIndex |-> 1,
       result |-> [i \in 1..Len(blocks) |-> "none"], submitted |-> <<>>,
       pageOk |-> FALSE, binaryMissing |-> binaryMissing,
       launch |-> "none", browser |-> 0]

\* No other run is suspended and no closeBrowser() of the host is pending:
\* the host awaits each call before it makes the next.
OthersAtRest(r) ==
  /\ closerPc # "closing"
  /\ \A q \in Slots \ {r} : AtRest(run[q])

\* The slot that names the next call of a transformer: the first that holds
\* no suspended run.
FirstFree(r) ==
  /\ AtRest(run[r])
  /\ \A q \in Slots : q < r => ~AtRest(run[q])

\* The call transformer(tree) of the run rr in slot r, up to its first
\* await or to its return.
CallTransformer(r, rr) ==
  IF EarlyReturn(rr)
  THEN /\ run' = [run EXCEPT ![r] = [rr EXCEPT !.pc = "done"]]
       /\ UNCHANGED browserState
  ELSE IF rr.plugin = "lilypond"
  THEN /\ run' = [run EXCEPT ![r] = LilypondLoop(rr)]
       /\ UNCHANGED browserState
  ELSE IF browserInstance = 0
  THEN /\ run' = [run EXCEPT ![r] = [rr EXCEPT !.pc = "launching",
                                               !.launch = "pending"]]
       /\ UNCHANGED browserState
  ELSE LET next == SvguitarLoop([rr EXCEPT !.launch = "held"],
                                browserInstance, browserState)
       IN  /\ run' = [run EXCEPT ![r] = next.run]
           /\ browserState' = next.state

\* transformer(tree) is called and runs to its first await or to its
\* return, while nothing else is in progress.
StartRun(r) ==
  /\ FirstFree(r)
  /\ runCount < MaxRuns
  /\ OthersAtRest(r)
  /\ \E plugin \in {"lilypond", "svguitar"}, tree \in SampleTrees,
        errorInline \in BOOLEAN, skipOnMissing \in BOOLEAN,
        keepAlive \in BOOLEAN, compact \in BOOLEAN,
        binaryMissing \in BOOLEAN :
       /\ plugin = "lilypond" => ~keepAlive
       /\ plugin = "svguitar" => ~compact /\ ~binaryMissing
       /\ CallTransformer(r, NewRun(plugin, tree, errorInline, skipOnMissing,
                                    keepAlive, compact, binaryMissing))
  /\ runCount' = runCount + 1
  /\ closerPc' = IF closerPc = "resolved" THEN "idle" ELSE closerPc
  /\ UNCHANGED <<browserInstance, browserLauncher, vbVars, csVars, ncVars>>

\* The catch clause of a failed launch: nothing with skipOnMissing, an
\* error node for every block with errorInline.
\* Variant that stops after the first block.
LaunchErrorNodesFirstOnly(tree, blocks, i) ==
  IF blocks = <<>> THEN tree
  ELSE ReplaceNode(tree, blocks[1],
                   createErrorNode("Failed to launch Puppeteer browser"))

RECURSIVE LaunchErrorNodes(_, _, _)
LaunchErrorNodes(tree, blocks, i) ==
  IF i > Len(blocks) THEN tree
  ELSE LaunchErrorNodes(
         ReplaceNode(tree, blocks[i],
                     createErrorNode("Failed to launch Puppeteer browser")),
         blocks, i + 1)

\* await puppeteer.launch(...) returns a browser or throws.
LaunchReturn(r) ==
  /\ run[r].pc = "launching"
  /\ \/ LET b    == Len(browserState) + 1
            next == SvguitarLoop([run[r] EXCEPT !.launch = "ok"], b,
                                 Append(browserState, "open"))
        IN  /\ browserInstance' = b
            /\ run' = [run EXCEPT ![r] = next.run]
            /\ browserState' = next.state
            /\ browserLauncher' = Append(browserLauncher, run[r].keepAlive)
     \/ /\ run' = [run EXCEPT ![r] =
                     Throw(run[r], "launch",
                       [run[r] EXCEPT
                          !.pc = "done",
                          !.launch = "failed",
                          !.tree = IF ~run[r].skipOnMissing
                                      /\ run[r].errorInline
                                   THEN LaunchErrorNodes(run[r].tree,
                                                         run[r].codeBlocks, 1)
                                   ELSE run[r].tree])]
        /\ UNCHANGED <<browserInstance, browserState, browserLauncher>>
  /\ UNCHANGED <<runCount, closerPc, vbVars, csVars, ncVars>>

\* The lilypond run rr after render() returned with the given outcome.
\* Variant whose catch clause goes back to the block that failed.
LilypondAfterRenderRetry(rr, outcome) ==
  IF outcome = "ok"
  THEN LilypondLoop(
         [rr EXCEPT
            !.tree = ReplaceNode(rr.tree, CurrentIndex(rr),
                       LilypondSvgNode(rr.tree[CurrentIndex(rr)], rr.compact)),
            !.result[rr.blockIndex] = "svg",
            !.blockIndex = rr.blockIndex + 1])
  ELSE LilypondLoop([rr EXCEPT !.result[rr.blockIndex] = "renderFailed"])

\* The lilypond run rr after render() returned with the given outcome.
LilypondAfterRender(rr, outcome) ==
  IF outcome = "ok"
  THEN LilypondLoop(
         [rr EXCEPT
            !.tree = ReplaceNode(rr.tree, CurrentIndex(rr),
                       LilypondSvgNode(rr.tree[CurrentIndex(rr)], rr.compact)),
            !.result[rr.blockIndex] = "svg",
            !.blockIndex = rr.blockIndex + 1])
  ELSE IF SkipsOnMissing(rr, outcome)
  THEN Throw(rr, "render",
             [rr EXCEPT !.result[rr.blockIndex] = "notFound", !.pc = "done"])
  ELSE LilypondLoop(
         Throw(rr, "render",
           [rr EXCEPT
              !.tree = IF rr.errorInline
                       THEN ReplaceNode(rr.tree, CurrentIndex(rr),
                                        LilypondErrorNode(outcome))
                       ELSE rr.tree,
              !.result[rr.blockIndex] =
                 IF outcome = "notFound" THEN "notFound" ELSE "renderFailed",
              !.blockIndex = rr.blockIndex + 1]))

\* The ways render() can return: "ok" with the svg, "compileError" with an
\* error that isLilyPondNotFound rejects, "notFound" with one that it
\* accepts (ENOENT when the executable is missing; any message that
\* contains "not found" otherwise).
RenderOutcomes(rr) ==
  IF rr.binaryMissing THEN {"notFound"}
  ELSE {"ok", "compileError", "notFound"}

\* await render(lilypondCode, ...) returns the svg or throws a compilation
\* error or an executable-not-found error.
LilypondRenderReturn(r) ==
  /\ run[r].pc = "rendering"
  /\ run[r].plugin = "lilypond"
  /\ \E outcome \in RenderOutcomes(run[r]) :
       run' = [run EXCEPT ![r] = LilypondAfterRender(run[r], outcome)]
  /\ UNCHANGED <<runCount, browserInstance, browserState, closerPc,
                 browserLauncher, vbVars, csVars, ncVars>>

\* await renderChordsWithPuppeteer(...) returns the svg or throws (a wait
\* that times out; newPage() on a missing or closed browser).
SvguitarRenderReturn(r) ==
  /\ run[r].pc = "rendering"
  /\ run[r].plugin = "svguitar"
  /\ \E outcome \in {"ok", "timeout"} :
       /\ outcome = "ok" =>
            run[r].pageOk /\ IsOpen(browserState, run[r].browser)
       /\ LET rr   == run[r]
              after ==
                IF outcome = "ok"
                THEN [rr EXCEPT
                        !.tree = ReplaceNode(rr.tree, CurrentIndex(rr),
                                   SvguitarSvgNode(rr.tree[CurrentIndex(rr)])),
                        !.result[rr.blockIndex] = "svg",
                        !.blockIndex = rr.blockIndex + 1]
                ELSE SvguitarBlockFailed(rr, "renderFailed",
                                         "SVGuitar rendering error")
              next == SvguitarLoop(after, browserInstance, browserState)
          IN  /\ run' = [run EXCEPT ![r] = next.run]
              /\ browserState' = next.state
  /\ UNCHANGED <<runCount, browserInstance, closerPc, browserLauncher,
                 vbVars, csVars, ncVars>>

\* await browserInstance.close() returns inside the closeBrowser() of the
\* end of a run: browserInstance = null, and the transformer returns.
RunCloseReturn(r) ==
  /\ run[r].pc = "closing"
  /\ browserInstance' = 0
  /\ run' = [run EXCEPT ![r].pc = "done"]
  /\ UNCHANGED <<runCount, browserState, closerPc, browserLauncher,
                 vbVars, csVars, ncVars>>

\* closeBrowser() called by the host, up to its await or, when
\* browserInstance is null, to its return.
CloseBrowserCalled ==
  /\ browserState' = CloseCalled(browserState, browserInstance)
  /\ closerPc' = IF browserInstance # 0 THEN "closing" ELSE "resolved"
  /\ UNCHANGED <<run, runCount, browserInstance, browserLauncher,
                 vbVars, csVars, ncVars>>

\* The host calls closeBrowser() while no run is in progress.
CloseBrowserCall ==
  /\ closerPc # "closing"
  /\ \A q \in Slots : AtRest(run[q])
  /\ CloseBrowserCalled

\* The return of the host's closeBrowser() when browserInstance is left as
\* it is.
CloseBrowserReturnKeepsInstance ==
  /\ closerPc = "closing"
  /\ closerPc' = "resolved"
  /\ UNCHANGED <<run, runCount, browserInstance, browserState,
                 browserLauncher, vbVars, csVars, ncVars>>

\* await browserInstance.close() returns inside the host's closeBrowser().
CloseBrowserReturn ==
  /\ closerPc = "closing"
  /\ browserInstance' = 0
  /\ closerPc' = "resolved"
  /\ UNCHANGED <<run, runCount, browserState, browserLauncher,
                 vbVars, csVars, ncVars>>

\* The documents of the runs that overlap.
ConcurrentTrees == { <<Code("svguitar", "chord")>> }

\* transformer(tree) of a svguitar processor is called, whatever else is in
\* progress: the host does not await the calls it made before.
StartRunConcurrent(r) ==
  /\ FirstFree(r)
  /\ runCount < MaxRuns
  /\ \E tree \in ConcurrentTrees, skipOnMissing \in BOOLEAN,
        keepAlive \in BOOLEAN :
       CallTransformer(r, NewRun("svguitar", tree, FALSE, skipOnMissing,
                                 keepAlive, FALSE, FALSE))
  /\ runCount' = runCount + 1
  /\ closerPc' = IF closerPc = "resolved" THEN "idle" ELSE closerPc
  /\ UNCHANGED <<browserInstance, browserLauncher, vbVars, csVars, ncVars>>

\* The host calls closeBrowser(), whatever else is in progress.
CloseBrowserCallAnytime ==
  /\ closerPc # "closing"
  /\ CloseBrowserCalled

\* No normaliseChordData call is under way.
IdleNormalise ==
  /\ ncInput = <<>>
  /\ ncOutput = <<>>
  /\ ncDone = FALSE

\* No transformer has run.
IdleTransformers ==
  /\ run = [r \in Slots |-> IdleRun]
  /\ runCount = 0
  /\ browserInstance = 0
  /\ browserState = <<>>
  /\ closerPc = "idle"
  /\ browserLauncher = <<>>

(***************************************************************************)
(* SpecViewBox: the repair functions applied to bounded fragments          *)
(***************************************************************************)

\* Fragments are built from at most MaxSegments segments, and a repair is
\* applied at most MaxPasses times in a row.
MaxSegments == 2
MaxPasses == 2

\* viewBox values, split at single spaces.
SampleViewBoxes ==
  { << <<"0">>, <<"0">>, <<"2", "0", "0">>, <<"0">> >>,      \* 0 0 200 0
    << <<"0">>, <<"0">>, <<"1", "0", "0">>, <<"4", "0">> >>, \* 0 0 100 40
    << <<"0">>, <<"0">>, <<"3", "0", "0">>, <<"0">> >>,      \* 0 0 300 0
    << <<"0">>, <<"0">>, <<"3", "0", "0">>, <<"1", "5", "0">> >>,
    << <<"-", "1", "0">>, <<"+", "5">>, <<"1", "0", "p", "x">>,
       <<"-", "5">> >>,                                       \* -10 +5 10px -5
    << <<"0">>, <<"0">>, <<"-", "1", "0", "0">>, <<"0">> >>,  \* 0 0 -100 0
    << <<"0">>, <<"0">>, <<"0">>, <<"0">> >>,                 \* 0 0 0 0
    << <<"0">>, <<"0">>, <<"a", "b", "c">>, <<"0">> >>,       \* 0 0 abc 0
    << <<"0">>, <<"0">>, <<"3", "0", "0">>, <<"a">> >>,       \* 0 0 300 a
    << <<"0">>, <<"0">>, <<"3", "0", "0">> >>,                \* 0 0 300
    << <<"0">>, <<"0">> >>,                                   \* 0 0
    << <<"0">>, <<"0">>, <<>>, <<"3", "0", "0">>, <<"0">> >>, \* 0 0  300 0
    << <<>> >> }                                              \* empty value

\* A segment: text, an svg opening tag with or without a viewBox, another
\* tag carrying a viewBox, or an svg opening that is never closed.
Segments ==
  { <<Txt>>, <<SvgOpen, Gt>> }
  \cup { <<SvgOpen, ViewBoxAttr(v), Gt>> : v \in SampleViewBoxes }
  \cup { <<Txt, ViewBoxAttr(v), Gt>> : v \in SampleViewBoxes }
  \cup { <<SvgOpen, ViewBoxAttr(v)>> : v \in SampleViewBoxes }

RECURSIVE FragmentsUpTo(_)
FragmentsUpTo(n) ==
  IF n = 0 THEN { <<>> }
  ELSE LET shorter == FragmentsUpTo(n - 1)
       IN  shorter \cup { f \o g : f \in shorter, g \in Segments }

Fragments == FragmentsUpTo(MaxSegments)

\* No compactSvg call is under way.
IdleCompact ==
  /\ csInput = <<>>
  /\ csOutput = <<>>
  /\ csDone = FALSE

InitViewBox ==
  /\ IdleCompact
  /\ IdleTransformers
  /\ IdleNormalise
  /\ vbFn \in {"fixSvgViewBox", "fixMultipleSvgViewBoxes"}
  /\ vbInput \in Fragments
  /\ vbPrev = vbInput
  /\ vbOutput = vbInput
  /\ vbPasses = 0

\* svgContent = fixSvgViewBox(svgContent)
ApplyFixSvgViewBox ==
  /\ vbFn = "fixSvgViewBox"
  /\ vbPasses < MaxPasses
  /\ vbPrev' = vbOutput
  /\ vbOutput' = fixSvgViewBox(vbOutput)
  /\ vbPasses' = vbPasses + 1
  /\ UNCHANGED <<vbFn, vbInput, csVars, trVars, ncVars>>

\* htmlContent = fixMultipleSvgViewBoxes(htmlContent)
ApplyFixMultipleSvgViewBoxes ==
  /\ vbFn = "fixMultipleSvgViewBoxes"
  /\ vbPasses < MaxPasses
  /\ vbPrev' = vbOutput
  /\ vbOutput' = fixMultipleSvgViewBoxes(vbOutput)
  /\ vbPasses' = vbPasses + 1
  /\ UNCHANGED <<vbFn, vbInput, csVars, trVars, ncVars>>

NextViewBox == ApplyFixSvgViewBox \/ ApplyFixMultipleSvgViewBoxes

vars == <<vbVars, csVars, trVars, ncVars>>

SpecViewBox == InitViewBox /\ [][NextViewBox]_vars

(***************************************************************************)
(* SpecCompact: compactSvg applied to bounded LilyPond markup              *)
(***************************************************************************)

\* The markup is an svg opening tag followed by at most MaxBodySegments
\* segments.
MaxBodySegments == 3

\* The opening svg tags.
SampleSvgTags ==
  { \* viewBox="0 0 120 170" width="210" height="297"
    SvgTag(Attr(<< <<"0">>, <<"0">>, <<"1", "2", "0">>, <<"1", "7", "0">> >>),
           Attr(<<"2", "1", "0">>), Attr(<<"2", "9", "7">>)),
    \* viewBox="0 0 50 0" width="50" height="0"
    SvgTag(Attr(<< <<"0">>, <<"0">>, <<"5", "0">>, <<"0">> >>),
           Attr(<<"5", "0">>), Attr(<<"0">>)),
    \* viewBox="0 0 50" width="50" height="0"
    SvgTag(Attr(<< <<"0">>, <<"0">>, <<"5", "0">> >>),
           Attr(<<"5", "0">>), Attr(<<"0">>)),
    \* width="210" height="297"
    SvgTag(NoAttr, Attr(<<"2", "1", "0">>), Attr(<<"2", "9", "7">>)),
    \* viewBox="0 0  120 170"
    SvgTag(Attr(<< <<"0">>, <<"0">>, <<>>, <<"1", "2", "0">>,
                   <<"1", "7", "0">> >>), NoAttr, NoAttr) }

Chars(id, m) == [El("chars") EXCEPT !.id = id, !.m = m]
Translated(k, tr) == [El(k) EXCEPT !.tr = tr]
Line(tr, x2) == [El("line") EXCEPT !.tr = tr, !.a = <<x2>>]

\* The segments a body is made of.
BodySegments ==
  { \* <text>Title</text>
    <<El("text"), Chars("Title", FALSE), El("/text")>>,
    \* <text transform="translate(40,30)">Composer</text>
    <<Translated("text", << <<"4", "0">>, <<"3", "0">> >>),
      Chars("Composer", FALSE), El("/text")>>,
    \* <text>Music engraving by LilyPond</text>
    <<El("text"), Chars("Music engraving by LilyPond", TRUE), El("/text")>>,
    \* <a href="https://lilypond.org/"><text transform="translate(0,160)">
    \* Music engraving by LilyPond</text></a>
    <<[El("a") EXCEPT !.m = TRUE],
      Translated("text", << <<"0">>, <<"1", "6", "0">> >>),
      Chars("Music engraving by LilyPond", TRUE), El("/text"), El("/a")>>,
    \* <g><text class="lilypond">x</text></g>
    <<El("g"), [El("text") EXCEPT !.m = TRUE], Chars("x", FALSE),
      El("/text"), El("/g")>>,
    \* <line transform="translate(10,20)" x2="150">
    <<Line(<< <<"1", "0">>, <<"2", "0">> >>, <<"1", "5", "0">>)>>,
    \* <line transform="translate(50,20)" x2="3">
    <<Line(<< <<"5", "0">>, <<"2", "0">> >>, <<"3">>)>>,
    \* <line transform="translate(-20,5)" x2="60">
    <<Line(<< <<"-", "2", "0">>, <<"5">> >>, <<"6", "0">>)>>,
    \* <line x2="150">
    <<Line(<<>>, <<"1", "5", "0">>)>>,
    \* <line transform="translate(30)" x2="abc">
    <<Line(<< <<"3", "0">> >>, <<"a", "b", "c">>)>>,
    \* <rect x="10" width="200">
    <<[El("rect") EXCEPT !.a = << <<"1", "0">>, <<"2", "0", "0">> >>]>>,
    \* <g transform="translate(130,40)"><path></g>
    <<Translated("g", << <<"1", "3", "0">>, <<"4", "0">> >>), El("path"),
      El("/g")>>,
    \* <g transform="translate(abc,5)"><path></g>
    <<Translated("g", << <<"a", "b", "c">>, <<"5">> >>), El("path"),
      El("/g")>>,
    \* <svg width="10">
    <<SvgTag(NoAttr, Attr(<<"1", "0">>), NoAttr)>> }

RECURSIVE BodiesUpTo(_)
BodiesUpTo(n) ==
  IF n = 0 THEN { <<>> }
  ELSE LET shorter == BodiesUpTo(n - 1)
       IN  shorter \cup { f \o g : f \in shorter, g \in BodySegments }

CompactInputs ==
  { <<t>> \o b : t \in SampleSvgTags, b \in BodiesUpTo(MaxBodySegments) }

\* No viewBox repair is under way.
IdleViewBox ==
  /\ vbFn = "idle"
  /\ vbInput = <<>>
  /\ vbPrev = <<>>
  /\ vbOutput = <<>>
  /\ vbPasses = 0

InitCompact ==
  /\ IdleViewBox
  /\ IdleTransformers
  /\ IdleNormalise
  /\ csInput \in CompactInputs
  /\ csOutput = <<>>
  /\ csDone = FALSE

\* svgContent = compactSvg(svgContent)
ApplyCompactSvg ==
  /\ ~csDone
  /\ csInput # <<>>
  /\ csOutput' = compactSvg(csInput)
  /\ csDone' = TRUE
  /\ UNCHANGED <<csInput, vbVars, trVars, ncVars>>

NextCompact == ApplyCompactSvg

SpecCompact == InitCompact /\ [][NextCompact]_vars

(***************************************************************************)
(* Spec: transformer runs and closeBrowser() calls, one after the other    *)
(***************************************************************************)

Init ==
  /\ IdleViewBox
  /\ IdleCompact
  /\ IdleTransformers
  /\ IdleNormalise

Next ==
  \/ \E r \in Slots : StartRun(r)
  \/ \E r \in Slots : LaunchReturn(r)
  \/ \E r \in Slots : LilypondRenderReturn(r)
  \/ \E r \in Slots : SvguitarRenderReturn(r)
  \/ \E r \in Slots : RunCloseReturn(r)
  \/ CloseBrowserCall
  \/ CloseBrowserReturn

Spec == Init /\ [][Next]_vars

\* Every awaited external call settles: puppeteer.launch() and
\* browser.close() return or throw, render() ends with the lilypond
\* process, and the waits of renderChordsWithPuppeteer time out.
Fairness ==
  \A r \in Slots :
    /\ WF_vars(LaunchReturn(r))
    /\ WF_vars(LilypondRenderReturn(r))
    /\ WF_vars(SvguitarRenderReturn(r))
    /\ WF_vars(RunCloseReturn(r))

SpecFair == Spec /\ Fairness

(***************************************************************************)
(* SpecNormalise: normaliseChordData applied to bounded chord arrays       *)
(***************************************************************************)

\* JSON values: a kind and, for arrays and strings, the content.
JsUndefined == [t |-> "undefined", v |-> <<>>]
JsNull == [t |-> "null", v |-> <<>>]
JsArray(items) == [t |-> "array", v |-> items]
JsString(str) == [t |-> "string", v |-> <<str>>]

\* obj[k], undefined when the object has no such property.
Get(obj, k) == IF k \in DOMAIN obj THEN obj[k] ELSE JsUndefined

\* a || b: undefined and null are falsy, every array is truthy.
Truthy(a) == a.t \notin {"undefined", "null"}
JsOr(a, b) == IF Truthy(a) THEN a ELSE b

\* { ...base, ...obj }: the properties of obj override those of base.
Spread(base, obj) ==
  [k \in DOMAIN base \cup DOMAIN obj |->
     IF k \in DOMAIN obj THEN obj[k] ELSE base[k]]

\* (chord) => ({ barres: chord.barres || [], ...chord })
normaliseChord(chord) ==
  Spread([k \in {"barres"} |-> JsOr(Get(chord, "barres"), JsArray(<<>>))],
         chord)

\* chordData.map(...)
normaliseChordData(chordData) ==
  [i \in 1..Len(chordData) |-> normaliseChord(chordData[i])]

\* Chord arrays hold at most MaxChords chords.
MaxChords == 2

\* The properties of the chords of the model and the values they take.
ChordKeys == {"barres", "fingers", "title"}

ChordValues(k) ==
  CASE k = "barres" -> {JsNull, JsArray(<<>>), JsArray(<<"barre">>)}
    [] k = "fingers" -> {JsArray(<<>>), JsArray(<<"finger">>)}
    [] OTHER -> {JsString("A")}

SampleChords ==
  UNION { { chord \in [present -> UNION {ChordValues(k) : k \in ChordKeys}] :
              \A k \in present : chord[k] \in ChordValues(k) } :
          present \in SUBSET ChordKeys }

RECURSIVE ChordArraysUpTo(_)
ChordArraysUpTo(n) ==
  IF n = 0 THEN {<<>>}
  ELSE LET shorter == ChordArraysUpTo(n - 1)
       IN  shorter \cup { Append(a, c) : a \in shorter, c \in SampleChords }

InitNormalise ==
  /\ IdleViewBox
  /\ IdleCompact
  /\ IdleTransformers
  /\ ncInput \in ChordArraysUpTo(MaxChords)
  /\ ncOutput = <<>>
  /\ ncDone = FALSE

ApplyNormaliseChordData ==
  /\ ~ncDone
  /\ ncOutput' = normaliseChordData(ncInput)
  /\ ncDone' = TRUE
  /\ UNCHANGED <<ncInput, vbVars, csVars, trVars>>

NextNormalise == ApplyNormaliseChordData

SpecNormalise == InitNormalise /\ [][NextNormalise]_vars

(***************************************************************************)
(* SpecConcurrent: svguitar runs and closeBrowser() calls that overlap     *)
(***************************************************************************)

InitConcurrent ==
  /\ IdleViewBox
  /\ IdleCompact
  /\ IdleTransformers
  /\ IdleNormalise

NextConcurrent ==
  \/ \E r \in Slots : StartRunConcurrent(r)
  \/ \E r \in Slots : LaunchReturn(r)
  \/ \E r \in Slots : SvguitarRenderReturn(r)
  \/ \E r \in Slots : RunCloseReturn(r)
  \/ CloseBrowserCallAnytime
  \/ CloseBrowserReturn

SpecConcurrent == InitConcurrent /\ [][NextConcurrent]_vars

(***************************************************************************)
(* Claims about the viewBox repair (checked under SpecViewBox)             *)
(***************************************************************************)

\* The value is "x y w h": four components that all parse to numbers.
FourNumbers(parts) ==
  /\ Len(parts) = 4
  /\ \A c \in 1..4 : IsNum(parseFloat(parts[c]))

\* Token a opens an svg tag: it is "<svg" and every earlier "<svg" has been
\* closed by a ">" before it.
OpensSvgTag(s, a) ==
  /\ s[a].k = "svg"
  /\ \A m \in 1..(a - 1) :
       s[m].k = "svg" => \E g \in (m + 1)..(a - 1) : s[g].k = "gt"

\* Token i is the viewBox attribute of an svg opening tag of s: the first
\* viewBox attribute between the "<svg" and the ">" of a closed tag.
IsSvgTagViewBox(s, i) ==
  /\ MatchesViewBox(s[i])
  /\ \E g \in (i + 1)..Len(s) : s[g].k = "gt"
  /\ \E a \in 1..(i - 1) :
       /\ OpensSvgTag(s, a)
       /\ \A m \in (a + 1)..(i - 1) :
            s[m].k # "gt" /\ ~MatchesViewBox(s[m])

\* The attribute out is the attribute in rewritten to "x y w w*1.2".
IsSynthesized(in, out) ==
  /\ out.k = "vb"
  /\ FourNumbers(out.v)
  /\ \A c \in 1..3 : parseFloat(out.v[c]) = parseFloat(in.v[c])
  /\ parseFloat(out.v[4]).n * 5 = parseFloat(in.v[3]).n * 6

\* C1: fixSvgViewBox on a fragment whose first viewBox is "x y w h" with
\* h <= 0 returns the fragment with that viewBox replaced by "x y w w*1.2";
\* x, y and w keep their values and every other token is unchanged.
C1_FixedRatioSynthesis ==
  (vbFn = "fixSvgViewBox" /\ vbPasses > 0) =>
    LET i == FirstViewBox(vbPrev)
    IN  (i # 0 /\ FourNumbers(vbPrev[i].v)
               /\ parseFloat(vbPrev[i].v[4]).n <= 0) =>
          /\ Len(vbOutput) = Len(vbPrev)
          /\ \A j \in 1..Len(vbPrev) : j # i => vbOutput[j] = vbPrev[j]
          /\ IsSynthesized(vbPrev[i], vbOutput[i])

\* "0 0 300 0" has become "0 0 300 360".
C1_Witness ==
  /\ vbFn = "fixSvgViewBox"
  /\ vbPasses = 1
  /\ FirstViewBox(vbPrev) # 0
  /\ vbPrev[FirstViewBox(vbPrev)].v
       = << <<"0">>, <<"0">>, <<"3", "0", "0">>, <<"0">> >>
  /\ vbOutput[FirstViewBox(vbPrev)].v
       = << <<"0">>, <<"0">>, <<"3", "0", "0">>, <<"3", "6", "0">> >>

\* C2: fixSvgViewBox returns its input unchanged when the fragment has no
\* viewBox attribute or its viewBox height is > 0; fixMultipleSvgViewBoxes
\* leaves every token unchanged that is not a viewBox attribute or is a
\* viewBox attribute with height > 0.
C2_PassThrough ==
  vbPasses > 0 =>
    /\ (vbFn = "fixSvgViewBox" =>
          LET i == FirstViewBox(vbPrev)
          IN  (i = 0 \/ GreaterThanZero(Component(vbPrev[i].v, 4)))
                => vbOutput = vbPrev)
    /\ (vbFn = "fixMultipleSvgViewBoxes" =>
          /\ Len(vbOutput) = Len(vbPrev)
          /\ \A j \in 1..Len(vbPrev) :
               (~MatchesViewBox(vbPrev[j])
                  \/ GreaterThanZero(Component(vbPrev[j].v, 4)))
                 => vbOutput[j] = vbPrev[j])

\* A fragment whose viewBox is "0 0 300 150" went through fixSvgViewBox.
C2_Witness ==
  /\ vbFn = "fixSvgViewBox"
  /\ vbPasses = 1
  /\ FirstViewBox(vbPrev) # 0
  /\ vbPrev[FirstViewBox(vbPrev)].v
       = << <<"0">>, <<"0">>, <<"3", "0", "0">>, <<"1", "5", "0">> >>
  /\ vbOutput = vbPrev

\* C3: applying a repair function twice gives the same fragment as applying
\* it once (for both fixSvgViewBox and fixMultipleSvgViewBoxes).
C3_Idempotence == vbPasses = 2 => vbOutput = vbPrev

\* C4: fixMultipleSvgViewBoxes treats every svg opening tag on its own: the
\* viewBox of a tag is rewritten to "x y w w*1.2" when its height is <= 0,
\* and every token that is not the viewBox of an svg tag, or is one with a
\* positive height, is unchanged, wherever the tag stands.
C4_BatchIndependence ==
  (vbFn = "fixMultipleSvgViewBoxes" /\ vbPasses > 0) =>
    /\ Len(vbOutput) = Len(vbPrev)
    /\ \A i \in 1..Len(vbPrev) :
         /\ (IsSvgTagViewBox(vbPrev, i) /\ FourNumbers(vbPrev[i].v)
                /\ parseFloat(vbPrev[i].v[4]).n <= 0)
              => IsSynthesized(vbPrev[i], vbOutput[i])
         /\ (~IsSvgTagViewBox(vbPrev, i)
                \/ GreaterThanZero(Component(vbPrev[i].v, 4)))
              => vbOutput[i] = vbPrev[i]

\* Two siblings "0 0 200 0" and "0 0 100 40" in either order: only the
\* first kind was rewritten, to height 240.
C4_Witness ==
  /\ vbFn = "fixMultipleSvgViewBoxes"
  /\ vbPasses = 1
  /\ \E i, j \in 1..Len(vbPrev) :
       /\ i > j
       /\ IsSvgTagViewBox(vbPrev, i) /\ IsSvgTagViewBox(vbPrev, j)
       /\ vbPrev[i].v = << <<"0">>, <<"0">>, <<"2", "0", "0">>, <<"0">> >>
       /\ vbPrev[j].v
            = << <<"0">>, <<"0">>, <<"1", "0", "0">>, <<"4", "0">> >>
       /\ vbOutput[i].v
            = << <<"0">>, <<"0">>, <<"2", "0", "0">>, <<"2", "4", "0">> >>
       /\ vbOutput[j] = vbPrev[j]

\* The viewBox has a known positive width and a height that is not > 0.
PositiveWidthBadHeight(t) ==
  /\ GreaterThanZero(Component(t.v, 3))
  /\ ~GreaterThanZero(Component(t.v, 4))

\* C5: in every fragment returned by the repair, a viewBox the repair is
\* responsible for (the first one for fixSvgViewBox, the one of each svg
\* tag for fixMultipleSvgViewBoxes) with a known positive width has a
\* height > 0.
C5_RestoredInvariant ==
  vbPasses > 0 =>
    /\ (vbFn = "fixSvgViewBox" =>
          LET i == FirstViewBox(vbOutput)
          IN  i # 0 => ~PositiveWidthBadHeight(vbOutput[i]))
    /\ (vbFn = "fixMultipleSvgViewBoxes" =>
          \A i \in 1..Len(vbOutput) :
            IsSvgTagViewBox(vbOutput, i)
              => ~PositiveWidthBadHeight(vbOutput[i]))

\* fixMultipleSvgViewBoxes was given an svg tag with a positive width and a
\* height that is not > 0, and returned it with a positive height.
C5_Witness ==
  /\ vbFn = "fixMultipleSvgViewBoxes"
  /\ vbPasses = 1
  /\ \E i \in 1..Len(vbPrev) :
       /\ IsSvgTagViewBox(vbPrev, i)
       /\ PositiveWidthBadHeight(vbPrev[i])
       /\ GreaterThanZero(Component(vbOutput[i].v, 4))

\* C6: when the viewBox is degenerate (height not > 0) and its width is
\* missing or not a number, the repair returns the fragment unmodified.
C6_UnknownWidthUnmodified ==
  vbPasses > 0 =>
    /\ (vbFn = "fixSvgViewBox" =>
          LET i == FirstViewBox(vbPrev)
          IN  (i # 0 /\ ~GreaterThanZero(Component(vbPrev[i].v, 4))
                     /\ ~IsNum(Component(vbPrev[i].v, 3)))
                => vbOutput = vbPrev)
    /\ (vbFn = "fixMultipleSvgViewBoxes" =>
          /\ Len(vbOutput) = Len(vbPrev)
          /\ \A i \in 1..Len(vbPrev) :
               (MatchesViewBox(vbPrev[i])
                  /\ ~GreaterThanZero(Component(vbPrev[i].v, 4))
                  /\ ~IsNum(Component(vbPrev[i].v, 3)))
                 => vbOutput[i] = vbPrev[i])

(***************************************************************************)
(* Claims about compactSvg (checked under SpecCompact)                     *)
(***************************************************************************)

\* The three elements from i are a text element without any marker.
IsUnrelatedText(s, i) ==
  /\ i + 2 <= Len(s)
  /\ s[i].k = "text" /\ ~s[i].m
  /\ s[i + 1].k = "chars" /\ ~s[i + 1].m
  /\ s[i + 2].k = "/text"

\* The three elements from i are a text element whose character data
\* contains "Music engraving" or "LilyPond".
IsAttributionText(s, i) ==
  /\ i + 2 <= Len(s)
  /\ s[i].k = "text"
  /\ s[i + 1].k = "chars" /\ s[i + 1].m
  /\ s[i + 2].k = "/text"

\* Element i lies inside a link to lilypond.org or inside a group that
\* starts with an attribution tag.
InsideAttribution(s, i) ==
  \/ \E a \in 1..i : s[a].k = "a" /\ s[a].m /\ FirstAfter(s, a, "/a") >= i
  \/ \E a \in 1..i : GroupMatchEnd(s, a) >= i

\* The fragment contains an attribution element.
HasAttribution(s) ==
  \E i \in 1..Len(s) : (s[i].k = "a" /\ s[i].m) \/ IsAttributionText(s, i)

\* Number of occurrences of the three-element text element e in s.
Occurrences(s, e) ==
  Cardinality({ i \in 1..Len(s) : i + 2 <= Len(s) /\ SubSeq(s, i, i + 2) = e })

\* C7: when the fragment contains an attribution element, every unrelated
\* text element that stands outside the attribution markup, before or after
\* it, is present and unaltered in the result of compactSvg.
C7_UnrelatedTextKept ==
  (csDone /\ HasAttribution(csInput)) =>
    \A i \in 1..Len(csInput) :
      (IsUnrelatedText(csInput, i) /\ ~InsideAttribution(csInput, i)) =>
        Occurrences(csOutput, SubSeq(csInput, i, i + 2)) >= 1

\* The numbers of the viewBox of the first svg tag of s that has one.
ViewBoxOf(s) ==
  LET parts == SplitWhitespace(s[FirstSvgWith(s, 1)].a[1].v)
  IN  [X |-> parseFloat(parts[1]).n, Y |-> parseFloat(parts[2]).n,
       W |-> parseFloat(parts[3]).n, H |-> parseFloat(parts[4]).n]

HasFourNumberViewBox(s) ==
  /\ FirstSvgWith(s, 1) # 0
  /\ FourNumbers(SplitWhitespace(s[FirstSvgWith(s, 1)].a[1].v))

\* Element i carries translate(tx,ty) with two numbers.
HasTranslate(s, i) ==
  /\ Len(s[i].tr) >= 2
  /\ IsNum(parseFloat(s[i].tr[1])) /\ IsNum(parseFloat(s[i].tr[2]))

\* Element i is a line with a numeric x2.
HasX2(s, i) ==
  s[i].k = "line" /\ s[i].a # <<>> /\ IsNum(parseFloat(s[i].a[1]))

\* The drawn content s has a four-number viewBox, at least one
\* translate(tx,ty), and only numeric translate arguments.
CropCase(s) ==
  /\ HasFourNumberViewBox(s)
  /\ \E i \in 1..Len(s) : HasTranslate(s, i)
  /\ \A i \in 1..Len(s) : s[i].tr # <<>> => HasTranslate(s, i)

\* The translate origin of element i lies inside the rectangle vb.
OriginInside(s, i, vb) ==
  /\ vb.X <= parseFloat(s[i].tr[1]).n
  /\ parseFloat(s[i].tr[1]).n <= vb.X + vb.W
  /\ vb.Y <= parseFloat(s[i].tr[2]).n
  /\ parseFloat(s[i].tr[2]).n <= vb.Y + vb.H

\* C8 as stated: for a fragment with a four-number viewBox, at least one
\* translate(tx,ty) and any line x2 endpoints, the viewBox written by
\* compactSvg contains every translate origin and every x2.
C8_ContainsDrawnExtent ==
  LET drawn == StripAttribution(csInput)
  IN  (csDone /\ CropCase(drawn)) =>
        /\ HasFourNumberViewBox(csOutput)
        /\ \A i \in 1..Len(drawn) :
             /\ HasTranslate(drawn, i)
                  => OriginInside(drawn, i, ViewBoxOf(csOutput))
             /\ HasX2(drawn, i)
                  => /\ ViewBoxOf(csOutput).X <= parseFloat(drawn[i].a[1]).n
                     /\ parseFloat(drawn[i].a[1]).n
                          <= ViewBoxOf(csOutput).X + ViewBoxOf(csOutput).W

\* C8 amended: when moreover no translate coordinate is negative, the
\* viewBox written by compactSvg contains every translate origin and its
\* right edge X+W is at or beyond every line x2.
C8_ContainsOriginsReachesX2 ==
  LET drawn == StripAttribution(csInput)
  IN  (/\ csDone
       /\ CropCase(drawn)
       /\ \A i \in 1..Len(drawn) :
            HasTranslate(drawn, i) =>
              /\ parseFloat(drawn[i].tr[1]).n >= 0
              /\ parseFloat(drawn[i].tr[2]).n >= 0) =>
        /\ HasFourNumberViewBox(csOutput)
        /\ \A i \in 1..Len(drawn) :
             /\ HasTranslate(drawn, i)
                  => OriginInside(drawn, i, ViewBoxOf(csOutput))
             /\ HasX2(drawn, i)
                  => parseFloat(drawn[i].a[1]).n
                       <= ViewBoxOf(csOutput).X + ViewBoxOf(csOutput).W

\* translate(10,20) with x2="150" alone: the viewBox became "5 15 150 10".
C8_Witness ==
  /\ csDone
  /\ Len(csInput) = 2
  /\ csInput[2] = Line(<< <<"1", "0">>, <<"2", "0">> >>, <<"1", "5", "0">>)
  /\ HasFourNumberViewBox(csInput)
  /\ csOutput[1].a[1].v
       = << <<"5">>, <<"1", "5">>, <<"1", "5", "0">>, <<"1", "0">> >>

\* The scan of s finds no positional hint: no translate transform, no line
\* endpoint, no rect.
NoHint(s) ==
  \A i \in 1..Len(s) :
    s[i].tr = <<>> /\ s[i].k \notin {"line", "rect"}

SvgTagsOf(s) == SelectSeq(s, LAMBDA e : e.k = "svg")

\* C9: when the scan finds no positional hint, compactSvg leaves the
\* viewBox, width and height of every svg tag as they were, also when the
\* declared height is 0; so a rewritten viewBox means a hint was found.
C9_NoHintNoRewrite ==
  (csDone /\ NoHint(StripAttribution(csInput))) =>
    SvgTagsOf(csOutput) = SvgTagsOf(StripAttribution(csInput))

\* compactSvg returned a hint-free fragment whose viewBox is "0 0 50 0",
\* with a text element in it, and the svg tag is the one it was given.
C9_Witness ==
  /\ csDone
  /\ NoHint(StripAttribution(csInput))
  /\ Len(csInput) > 1
  /\ csInput[1].a[1] = Attr(<< <<"0">>, <<"0">>, <<"5", "0">>, <<"0">> >>)
  /\ csOutput[1] = csInput[1]

(***************************************************************************)
(* Claims about the transformers                                           *)
(***************************************************************************)

\* The render of block k of the run threw.
RenderFailed(rr, k) == rr.result[k] \in {"renderFailed", "notFound"}

\* Block j of the run was handled: handed to the renderer or failed before.
Handled(rr, j) == rr.result[j] # "none"

\* Block j of the run holds its own result: the svg of its own source when
\* its render returned; after a failure its error node with errorInline and
\* the code block it was without.
OwnResult(rr, j) ==
  LET i == rr.codeBlocks[j]
  IN  /\ rr.result[j] = "svg" =>
           /\ rr.tree[i].type = "html"
           /\ rr.tree[i].value[1] = "svg"
           /\ rr.tree[i].value[2] = rr.orig[i].value[2]
      /\ rr.result[j] \in {"renderFailed", "notFound", "parseFailed"} =>
           IF rr.errorInline
           THEN /\ rr.tree[i].type = "html"
                /\ rr.tree[i].value[1] \in {"lilypond-error", "svguitar-error"}
           ELSE rr.tree[i] = rr.orig[i]

\* The lilypond run stopped at block k: skipOnMissing is set and the
\* renderer was not found.
StoppedAt(rr, k) ==
  /\ rr.plugin = "lilypond"
  /\ rr.skipOnMissing
  /\ rr.result[k] = "notFound"

\* C10 (as stated): in both transformers, when the render of one block
\* fails, every other collected block of the document is still handled and
\* replaced by its own result.
C10_FailureIsolation ==
  \A r \in Slots :
    LET rr == run[r]
    IN  rr.pc = "done" =>
          \A k \in 1..Len(rr.codeBlocks) :
            RenderFailed(rr, k) =>
              \A j \in 1..Len(rr.codeBlocks) \ {k} :
                Handled(rr, j) /\ OwnResult(rr, j)

\* C10 (amended): when the render of a block fails, every collected block
\* is still handled and holds its own result, except that the lilypond
\* transformer with skipOnMissing stops at the first block whose renderer
\* is not found: the blocks before it hold their results, that block and
\* the blocks after it stay the code blocks they were.
C10_FailureIsolationUnlessSkipped ==
  \A r \in Slots :
    LET rr == run[r]
        n  == Len(rr.codeBlocks)
    IN  rr.pc = "done" /\ (\E k \in 1..n : RenderFailed(rr, k)) =>
          IF \E k \in 1..n : StoppedAt(rr, k)
          THEN \A k \in 1..n :
                 StoppedAt(rr, k) =>
                   /\ \A j \in 1..(k - 1) : Handled(rr, j) /\ OwnResult(rr, j)
                   /\ \A j \in k..n :
                        rr.tree[rr.codeBlocks[j]] = rr.orig[rr.codeBlocks[j]]
                   /\ \A j \in (k + 1)..n : ~Handled(rr, j)
          ELSE \A j \in 1..n : Handled(rr, j) /\ OwnResult(rr, j)

\* A finished run in which the render of one block failed and the render
\* of a later block returned its svg.
C10_Witness ==
  \E r \in Slots :
    /\ run[r].pc = "done"
    /\ \E k, j \in 1..Len(run[r].codeBlocks) :
         /\ k < j
         /\ run[r].result[k] = "renderFailed"
         /\ run[r].result[j] = "svg"
         /\ OwnResult(run[r], j)

\* The browsers that are open.
OpenBrowsers == {b \in 1..Len(browserState) : browserState[b] = "open"}

\* C11: for any interleaving of transformer runs and closeBrowser() calls,
\* at most one browser launched by the plugin is open at any time, and
\* every chord render in progress on an open browser uses the one instance
\* that browserInstance holds.
C11_SingleBrowserInstance ==
  /\ Cardinality(OpenBrowsers) <= 1
  /\ \A r \in Slots :
       run[r].pc = "rendering" /\ IsOpen(browserState, run[r].browser) =>
         run[r].browser = browserInstance

\* C12: within one run the collected blocks are submitted to the renderer
\* in document order and each at most once (a failed block is never
\* submitted again), and one at a time: only the last submitted block can
\* be without a result, and only while the run awaits its render.
C12_SequentialAtMostOnce ==
  \A r \in Slots :
    LET rr  == run[r]
        sub == rr.submitted
    IN  /\ \A i, j \in 1..Len(sub) :
             i < j => rr.codeBlocks[sub[i]] < rr.codeBlocks[sub[j]]
        /\ \A i \in 1..Len(sub) :
             rr.result[sub[i]] = "none" =>
               i = Len(sub) /\ rr.pc = "rendering"

\* A finished run that submitted two blocks or more, one of which failed.
C12_Witness ==
  \E r \in Slots :
    /\ run[r].pc = "done"
    /\ Len(run[r].submitted) >= 2
    /\ \E i \in 1..Len(run[r].submitted) :
         /\ i < Len(run[r].submitted)
         /\ run[r].result[run[r].submitted[i]] = "renderFailed"

\* C13: the promise of a transformer run never rejects, and every run that
\* is suspended at an external call goes on to return (its promise
\* resolves), whatever the options and the outcomes of the external calls.
C13_AlwaysResolves ==
  /\ [](\A r \in Slots : run[r].pc # "rejected")
  /\ \A r \in Slots :
       (run[r].pc \in {"launching", "rendering", "closing"})
         ~> (run[r].pc = "done")

\* A run that returned after a block failed to parse and the render of
\* another block failed.
C13_Witness ==
  \E r \in Slots :
    /\ run[r].pc = "done"
    /\ \E k, j \in 1..Len(run[r].codeBlocks) :
         /\ run[r].result[k] = "parseFailed"
         /\ run[r].result[j] = "renderFailed"

\* The external tool of the run is missing: the lilypond executable does
\* not exist, or the launch of the browser failed.
ToolMissing(rr) ==
  \/ rr.plugin = "lilypond" /\ rr.binaryMissing /\ rr.codeBlocks # <<>>
  \/ rr.plugin = "svguitar" /\ rr.launch = "failed"

C16_InvalidJsonInlineError ==
  \A r \in Slots :
    LET rr == run[r]
    IN  rr.pc = "done" /\ rr.plugin = "svguitar" /\ rr.errorInline =>
          \A k \in 1..Len(rr.codeBlocks) :
            LET i == rr.codeBlocks[k]
            IN  rr.orig[i].value[2] = "notjson" =>
                  /\ rr.tree[i].type = "html"
                  /\ rr.tree[i].value[1] = "svguitar-error"
                  /\ rr.tree[i].value[2] = "Invalid JSON in SVGuitar block"

\* C17: when the launch of the browser fails and skipOnMissing is not set,
\* the run returns without having parsed or rendered a block,
\* browserInstance stays null, and every collected block is an
\* svguitar-error html node with errorInline and the code block it was
\* without.
C17_LaunchFailureNoSkip ==
  \A r \in Slots :
    LET rr == run[r]
    IN  rr.launch = "failed" /\ ~rr.skipOnMissing =>
          /\ rr.pc = "done"
          /\ rr.submitted = <<>>
          /\ \A k \in 1..Len(rr.codeBlocks) : rr.result[k] = "none"
          /\ browserInstance = 0
          /\ \A i \in 1..Len(rr.tree) :
               IF rr.errorInline /\ rr.orig[i].type = "code"
                  /\ rr.orig[i].lang = "svguitar"
               THEN /\ rr.tree[i].type = "html"
                    /\ rr.tree[i].value[1] = "svguitar-error"
               ELSE rr.tree[i] = rr.orig[i]

\* A run over two svguitar blocks or more, with errorInline and without
\* skipOnMissing, whose launch failed.
C17_Witness ==
  \E r \in Slots :
    /\ run[r].launch = "failed"
    /\ ~run[r].skipOnMissing /\ run[r].errorInline
    /\ Len(run[r].codeBlocks) >= 2

\* C18: a run modifies only the code blocks whose lang is exactly that of
\* its plugin; every other node of the tree, code blocks of other
\* languages included, is what it was before the run, whatever the
\* outcomes.
C18_Frame ==
  \A r \in Slots :
    LET rr == run[r]
    IN  /\ Len(rr.tree) = Len(rr.orig)
        /\ \A i \in 1..Len(rr.orig) :
             ~(rr.orig[i].type = "code" /\ rr.orig[i].lang = rr.plugin) =>
               rr.tree[i] = rr.orig[i]

\* A finished run that replaced a block of its language in a tree that
\* holds a code block of another language.
C18_Witness ==
  \E r \in Slots :
    /\ run[r].pc = "done"
    /\ run[r].tree # run[r].orig
    /\ \E i \in 1..Len(run[r].orig) :
         /\ run[r].orig[i].type = "code"
         /\ run[r].orig[i].lang # run[r].plugin

\* C19: a call of a transformer on a tree without a block of its language
\* returns at once: it launches no browser, closes none, submits nothing
\* to a renderer and leaves the tree as it was.
C19_NoTargetNoActivity ==
  [][\A r \in Slots :
       FirstFree(r) /\ runCount' = runCount + 1
       /\ run'[r].codeBlocks = <<>> =>
         /\ run'[r].pc = "done"
         /\ run'[r].tree = run'[r].orig
         /\ run'[r].submitted = <<>>
         /\ run'[r].launch = "none"
         /\ browserInstance' = browserInstance
         /\ browserState' = browserState]_vars

\* A svguitar run on a tree without svguitar blocks that returned while a
\* browser kept by an earlier run is open.
C19_Witness ==
  \E r \in Slots :
    /\ run[r].pc = "done"
    /\ run[r].plugin = "svguitar"
    /\ ~run[r].keepAlive
    /\ run[r].codeBlocks = <<>>
    /\ IsOpen(browserState, browserInstance)

\* C20: when a svguitar run without keepAlive that collected a block or
\* more has returned, no browser is open and browserInstance is null,
\* whether its blocks rendered or failed.
C20_ClosedWithoutKeepAlive ==
  \A r \in Slots :
    /\ run[r].pc = "done"
    /\ run[r].plugin = "svguitar"
    /\ ~run[r].keepAlive
    /\ run[r].codeBlocks # <<>>
    => browserInstance = 0 /\ OpenBrowsers = {}

\* A svguitar run without keepAlive that returned after it rendered one
\* block on a browser and failed to render another.
C20_Witness ==
  \E r \in Slots :
    /\ run[r].pc = "done"
    /\ run[r].plugin = "svguitar"
    /\ ~run[r].keepAlive
    /\ run[r].launch \in {"ok", "held"}
    /\ \E k, j \in 1..Len(run[r].codeBlocks) :
         /\ run[r].result[k] = "svg"
         /\ run[r].result[j] = "renderFailed"

\* The run in slot r returns in this step.
Returns(r) == run[r].pc # "done" /\ run'[r].pc = "done"

\* A browser that a keepAlive run launched, and that was open, is closed
\* in this step.
KeptBrowserCloses ==
  \E b \in 1..Len(browserState) :
    /\ browserLauncher[b]
    /\ browserState[b] = "open" /\ browserState'[b] = "closed"

\* When a run with keepAlive that launched or reused a browser returns, the
\* browser is open and held; a run launches only when no browser is held.
KeptOpenAndReused ==
  \A r \in Slots :
    /\ Returns(r) /\ run'[r].keepAlive /\ run'[r].launch \in {"ok", "held"}
       => IsOpen(browserState', browserInstance')
    /\ run[r].pc # "launching" /\ run'[r].pc = "launching"
       => browserInstance = 0 /\ OpenBrowsers = {}

\* C21 (as stated): the browser of a keepAlive run is open when the run
\* returns, the next run reuses it without another launch, and the browser
\* that a keepAlive run launched is closed only by a closeBrowser() call of
\* the host.
C21_KeepAliveHostClosesOnly ==
  [][/\ KeptOpenAndReused
     /\ KeptBrowserCloses => closerPc' = "closing"]_vars

\* C21 (amended): the browser of a keepAlive run is open when the run
\* returns, the next run reuses it without another launch, and the browser
\* that a keepAlive run launched is closed only by closeBrowser(), called
\* by the host or at the end of a run of a processor without keepAlive
\* that reused the browser.
C21_KeepAliveReuse ==
  [][/\ KeptOpenAndReused
     /\ KeptBrowserCloses =>
          \/ closerPc' = "closing"
          \/ \E r \in Slots : run'[r].pc = "closing" /\ ~run'[r].keepAlive]_vars

\* A keepAlive run that returned after it rendered a block on the browser
\* an earlier run had left open, which is open still.
C21_Witness ==
  \E r \in Slots :
    /\ run[r].pc = "done"
    /\ run[r].keepAlive
    /\ run[r].launch = "held"
    /\ \E k \in 1..Len(run[r].codeBlocks) : run[r].result[k] = "svg"
    /\ IsOpen(browserState, browserInstance)

\* The slot r starts a svguitar run over a block or more in this step.
StartsSvguitarRun(r) ==
  /\ FirstFree(r)
  /\ runCount' = runCount + 1
  /\ run'[r].plugin = "svguitar"
  /\ run'[r].codeBlocks # <<>>

\* C22: closeBrowser() called while browserInstance is null returns at once
\* and changes nothing; when a call has returned browserInstance is null
\* and no browser is open, so that a second call in a row changes nothing
\* either; and the svguitar run that follows launches a browser.
C22_CloseBrowserIdempotent ==
  [][/\ closerPc # "closing" /\ closerPc' # closerPc /\ browserInstance = 0
        /\ runCount' = runCount
        => /\ closerPc' = "resolved"
           /\ UNCHANGED <<run, browserInstance, browserState>>
     /\ closerPc' = "resolved" => browserInstance' = 0 /\ OpenBrowsers' = {}
     /\ closerPc = "resolved" /\ runCount' = runCount
        => UNCHANGED <<run, browserInstance, browserState, closerPc>>
     /\ \A r \in Slots :
          closerPc = "resolved" /\ StartsSvguitarRun(r)
          => run'[r].pc = "launching"]_vars

\* A closeBrowser() call of the host has returned after it closed the
\* second browser, which the latest run, a keepAlive run, had launched and
\* left open.
C22_Witness ==
  /\ closerPc = "resolved"
  /\ Len(browserState) = 2
  /\ browserState[2] = "closed"
  /\ \E r \in Slots :
       /\ run[r].pc = "done"
       /\ run[r].keepAlive
       /\ run[r].launch = "ok"
       /\ run[r].browser = 2

\* C23: when one chord of an array block fails, the other chords of the
\* block are still rendered: the node of a block that holds a chord with
\* fingers and a chord that fails is replaced by the html of the svgs,
\* whenever the run had a browser.
C23_OtherChordsRendered ==
  \A r \in Slots :
    LET rr == run[r]
    IN  rr.pc = "done" /\ rr.plugin = "svguitar"
        /\ rr.launch \in {"ok", "held"} =>
          \A k \in 1..Len(rr.codeBlocks) :
            LET i      == rr.codeBlocks[k]
                chords == ChordsOf(rr.orig[i].value[2])
            IN  /\ \E c \in 1..Len(chords) : chords[c] = "fingers"
                /\ \E c \in 1..Len(chords) : chords[c] = "nofingers"
                /\ rr.result[k] # "renderFailed"
                => /\ rr.tree[i].type = "html"
                   /\ rr.tree[i].value[1] = "svg"

\* C24: every normalised chord has a barres property that is an array, []
\* when the chord had none or null, the array it had otherwise, and keeps
\* every other property of the chord as it was.
C24_NormalisedStructure ==
  ncDone =>
    /\ Len(ncOutput) = Len(ncInput)
    /\ \A i \in 1..Len(ncInput) :
         LET chord == ncInput[i]
             out   == ncOutput[i]
         IN  /\ DOMAIN out = DOMAIN chord \cup {"barres"}
             /\ out["barres"].t = "array"
             /\ out["barres"] = IF Get(chord, "barres").t = "array"
                                THEN chord["barres"]
                                ELSE JsArray(<<>>)
             /\ \A k \in DOMAIN chord \ {"barres"} : out[k] = chord[k]

\* C25: for any interleaving of transformer runs and closeBrowser() calls,
\* the browser on which a render called newPage() was launched and not
\* closed at the call, and no run awaits its end-of-run closeBrowser()
\* while another run still has a block to render.
C25_NoUseOfClosedBrowser ==
  \A r \in Slots :
    /\ run[r].plugin = "svguitar" /\ run[r].pc = "rendering" => run[r].pageOk
    /\ run[r].pc = "closing" =>
         \A q \in Slots \ {r} : run[q].pc \notin {"launching", "rendering"}

====
